---- MODULE Spec2Model ----
(***************************************************************************)
(* Model of electron-hunspell's SpellCheckerProvider                       *)
(* (src/src/spellCheckerProvider.ts): the dictionary table, the mount      *)
(* ref-count table, the selection state, the engine (hunspell-asm) the     *)
(* provider drives and the host callback (webFrame) it installs.           *)
(***************************************************************************)
EXTENDS Integers, Sequences, FiniteSets, TLC

\* ------------------------------------------------------------------ bounds
MaxInit == 2          \* initialize() calls that reach loadModule()
MaxLoads == 2         \* loadDictionary calls that reach the mount step
MaxTime == 2          \* last value of the wall clock (Date.now())

\* ------------------------------------------------------------------ inputs
Null == "<null>"                       \* JS null (selectedDictionary)
\* a property name every JS object inherits from Object.prototype: the tables
\* are plain objects ({}), so a lookup of it finds the inherited value
Inherited == {"constructor"}
\* keys callers pass; "" is the empty key
Keys == {"", "en-us", "en-gb"} \cup Inherited
Dirs == {"/a", "/b"}                   \* physical directories of dictionary files
Words == {"colour", "color", "colr"}   \* words the host asks about
\* what a dictionary accepts (the content of its dic/aff pair)
Contents == {{"colour"}, {"color"}, {"colour", "color"}}
NegInf == -1                           \* Number.NEGATIVE_INFINITY (not an integer)
NoFactory == 0                         \* hunspellFactory is undefined

FileSource(d) == [kind |-> "file", dir |-> d]
BufferSource == [kind |-> "buffer", dir |-> ""]
Sources == {FileSource(d) : d \in Dirs} \cup {BufferSource}
Failures == {"none", "mount1", "mount2", "create"}

VARIABLES
  hunspellFactory,              \* the factory handle, NoFactory until loaded
  loadModuleCalls,              \* how many times loadModule() was invoked
  pendingInit,                  \* initialize() calls suspended at the await
  spellCheckerTable,            \* insertion-ordered entries (Object.keys order)
  currentSpellCheckerKey,       \* _currentSpellCheckerKey
  currentSpellCheckerStartTime, \* currentSpellCheckerStartTime
  fileMountRefCount,            \* mounted directory -> count (only present keys)
  mountedDirs,                  \* engine: directories mounted, per factory
  mountedBufs,                  \* engine: buffer files mounted, per factory
  liveInstances,                \* engine: Hunspell instances created, not disposed
  provider,                     \* host: the installed spell-check callback
  isRenderer,                   \* process.type === 'renderer'
  now,                          \* Date.now()
  nextId,                       \* ids of engine instances / buffer files
  lastCall                      \* the last API call: its arguments, outcome, engine calls

vars == <<hunspellFactory, loadModuleCalls, pendingInit, spellCheckerTable,
          currentSpellCheckerKey, currentSpellCheckerStartTime, fileMountRefCount,
          mountedDirs, mountedBufs, liveInstances, provider, isRenderer, now,
          nextId, lastCall>>

providerState == <<spellCheckerTable, currentSpellCheckerKey,
                   currentSpellCheckerStartTime, fileMountRefCount>>
engineState == <<mountedDirs, mountedBufs, liveInstances>>
initState == <<hunspellFactory, loadModuleCalls, pendingInit>>

\* ------------------------------------------------------------- the table
Range(s) == {s[i] : i \in 1..Len(s)}
TableKeys == {spellCheckerTable[i].key : i \in 1..Len(spellCheckerTable)}
HasKey(table, key) == \E i \in 1..Len(table) : table[i].key = key
IndexOf(table, key) == CHOOSE i \in 1..Len(table) : table[i].key = key
Entry(table, key) == table[IndexOf(table, key)]
\* this.spellCheckerTable[key] is truthy: an own entry, or an inherited property
Truthy(table, key) == HasKey(table, key) \/ key \in Inherited
\* mutant: the entry is disposed but stays in the table
DeleteKeyKeeps(table, key) == table
\* delete this.spellCheckerTable[key]
DeleteKey(table, key) == SelectSeq(table, LAMBDA e : e.key # key)

\* the engine's call log entries of one API call
Ev(op, f, d, n) == [op |-> op, f |-> f, d |-> d, n |-> n]

NoCallback == [kind |-> "none", key |-> Null, checkAll |-> FALSE]
AlwaysTrue(key) == [kind |-> "alwaysTrue", key |-> key, checkAll |-> FALSE]
Provider(key, checkAll) == [kind |-> "provider", key |-> key, checkAll |-> checkAll]

Call(op, key, result, log) ==
  [op |-> op, key |-> key, result |-> result, log |-> log, value |-> <<>>,
   word |-> ""]

Init ==
  /\ hunspellFactory = NoFactory
  /\ loadModuleCalls = 0
  /\ pendingInit = {}
  /\ spellCheckerTable = <<>>
  /\ currentSpellCheckerKey = Null
  /\ currentSpellCheckerStartTime = NegInf
  /\ fileMountRefCount = [x \in {} |-> 0]
  /\ mountedDirs = {}
  /\ mountedBufs = {}
  /\ liveInstances = {}
  /\ provider = NoCallback
  /\ isRenderer \in BOOLEAN
  /\ now = 0
  /\ nextId = 1
  /\ lastCall = Call("new", Null, "ok", <<>>)

\* ------------------------------------------------------------ initialize
\* initialize(): returns at once when the factory is set, else invokes
\* loadModule() and suspends at the await.
Initialize(maxInit) ==
  /\ IF hunspellFactory # NoFactory
       THEN /\ UNCHANGED initState
            /\ lastCall' = Call("initialize", Null, "noop", <<>>)
       ELSE /\ loadModuleCalls < maxInit
            /\ loadModuleCalls' = loadModuleCalls + 1
            /\ pendingInit' = pendingInit \cup {loadModuleCalls + 1}
            /\ UNCHANGED hunspellFactory
            /\ lastCall' = Call("initialize", Null, "awaiting",
                                <<Ev("loadModule", loadModuleCalls + 1, "", 0)>>)
  /\ UNCHANGED <<providerState, engineState, provider, isRenderer, now, nextId>>

\* the awaited loadModule() of call i resolves: the factory it produced is stored
InitializeResume(i) ==
  /\ i \in pendingInit
  /\ pendingInit' = pendingInit \ {i}
  /\ hunspellFactory' = i
  /\ lastCall' = Call("initializeResume", Null, "ok", <<>>)
  /\ UNCHANGED <<loadModuleCalls, providerState, engineState, provider,
                 isRenderer, now, nextId>>

\* the awaited loadModule() of call i rejects: initialize() rejects, nothing is stored
InitializeReject(i) ==
  /\ i \in pendingInit
  /\ pendingInit' = pendingInit \ {i}
  /\ lastCall' = Call("initializeResume", Null, "error", <<>>)
  /\ UNCHANGED <<hunspellFactory, loadModuleCalls, providerState, engineState,
                 provider, isRenderer, now, nextId>>

\* the wall clock advances between API calls
Tick(maxTime) ==
  /\ now < maxTime
  /\ now' = now + 1
  /\ UNCHANGED <<initState, providerState, engineState, provider, isRenderer,
                 nextId, lastCall>>

\* ---------------------------------------------------------------- engine
\* factory.mountDirectory(dir): the mount point is the factory's own root joined
\* with the directory, so path.dirname of a file mounted under it is the mount
\* point again; mounting a mounted directory returns the same mount point.
MountPoint(f, d) == <<f, d>>
\* factory.mountBuffer(buffer): a fresh file per call
AffBuffer(id) == 2 * id - 1
DicBuffer(id) == 2 * id
\* spellChecker.spell(word)
Spell(words, word) == word \in words
\* spellChecker.suggest(text): the engine's ranked list
SuggestOrder == <<"colour", "color">>
Suggest(words, text) == SelectSeq(SuggestOrder, LAMBDA w : w \in words /\ w # text)

\* -------------------------------------------------------- ref-count table
\* this.fileMountRefCount[dir] is truthy
Counted(rc, dir) == dir \in DOMAIN rc /\ rc[dir] # 0

\* mutant: the count is set to 1 instead of incremented
IncreaseRefCountReset(rc, dir) ==
  [x \in DOMAIN rc \cup {dir} |-> IF x = dir THEN 1 ELSE rc[x]]

IncreaseRefCount(rc, dir) ==
  [x \in DOMAIN rc \cup {dir} |->
     IF x = dir THEN (IF Counted(rc, dir) THEN rc[dir] + 1 ELSE 1) ELSE rc[x]]

\* the table after decreaseRefCount(dir)
DecreaseTable(rc, dir) ==
  LET rc1 == IF dir \in DOMAIN rc /\ rc[dir] > 0
               THEN [rc EXCEPT ![dir] = @ - 1] ELSE rc
  IN IF dir \in DOMAIN rc1 /\ rc1[dir] = 0
       THEN [x \in DOMAIN rc1 \ {dir} |-> rc1[x]]
       ELSE rc1

\* mutant: the count is read before the decrement
DecreaseRefCountStale(rc, dir) == IF Counted(rc, dir) THEN rc[dir] ELSE 0

\* the value decreaseRefCount(dir) returns
DecreaseRefCount(rc, dir) ==
  LET rc2 == DecreaseTable(rc, dir)
  IN IF Counted(rc2, dir) THEN rc2[dir] ELSE 0

\* --------------------------------------------------------- loadDictionary
\* mutant: only the empty key is refused
InvalidKeyEmptyOnly(table, key) == key = ""

\* the guard of loadDictionary: the key is empty or already registered
InvalidKey(table, key) == key = "" \/ Truthy(table, key)

\* mutant: mounting goes ahead without a factory
FactoryMissingNever(f) == FALSE

\* this.hunspellFactory is undefined: factory.mountBuffer / mountDirectory throws
FactoryMissing(f) == f = NoFactory

\* mutant: the ref counts are increased before the instance is created
RefCountAfterLoadEager(rc, isFile, created, affPath, dicPath) ==
  IF isFile THEN IncreaseRefCount(IncreaseRefCount(rc, affPath), dicPath) ELSE rc

\* assignSpellchecker: factory.create comes first, then, for files,
\* increaseRefCount(affPath) and increaseRefCount(dicPath)
RefCountAfterLoad(rc, isFile, created, affPath, dicPath) ==
  IF created /\ isFile
    THEN IncreaseRefCount(IncreaseRefCount(rc, affPath), dicPath)
    ELSE rc

\* mutant: a directory shared by both files is requested once
MountFileLogPerDirectory(f, affDir, dicDir, affMounted) ==
  <<Ev("mountDirectory", f, affDir, 0)>>
  \o (IF affMounted /\ dicDir # affDir
        THEN <<Ev("mountDirectory", f, dicDir, 0)>> ELSE <<>>)

\* mountFileDictionary: getMountedPath calls factory.mountDirectory for the
\* affix file, then for the dictionary file
MountFileLog(f, affDir, dicDir, affMounted) ==
  <<Ev("mountDirectory", f, affDir, 0)>>
  \o (IF affMounted THEN <<Ev("mountDirectory", f, dicDir, 0)>> ELSE <<>>)

\* loadDictionary(key, dic, aff); fail is where the engine throws, words what
\* the dictionary accepts.
LoadDictionary(key, dic, aff, fail, words, maxLoads) ==
  LET f == hunspellFactory
      id == nextId
      isBuffer == dic.kind = "buffer" /\ aff.kind = "buffer"
      isFile == dic.kind = "file" /\ aff.kind = "file"
      affPath == MountPoint(f, aff.dir)
      dicPath == MountPoint(f, dic.dir)
      m1ok == fail # "mount1"
      m2ok == m1ok /\ fail # "mount2"
      crok == m2ok /\ fail # "create"
      dirs1 == IF isFile /\ m1ok THEN mountedDirs \cup {affPath} ELSE mountedDirs
      dirs2 == IF isFile /\ m2ok THEN dirs1 \cup {dicPath} ELSE dirs1
      bufs1 == IF isBuffer /\ m1ok
                 THEN mountedBufs \cup {<<f, AffBuffer(id)>>} ELSE mountedBufs
      bufs2 == IF isBuffer /\ m2ok
                 THEN bufs1 \cup {<<f, DicBuffer(id)>>} ELSE bufs1
      log1 == IF isBuffer THEN <<Ev("mountBuffer", f, "", AffBuffer(id))>>
                          ELSE <<>>
      log2 == IF ~m1ok THEN <<>>
              ELSE IF isBuffer THEN <<Ev("mountBuffer", f, "", DicBuffer(id))>>
                               ELSE <<>>
      logf == IF isFile THEN MountFileLog(f, aff.dir, dic.dir, m1ok) ELSE <<>>
      log3 == IF m2ok THEN <<Ev("create", f, IF crok THEN "" ELSE "throws", id)>>
                      ELSE <<>>
      entry == [key |-> key, spellChecker |-> id, uptime |-> 0,
                buffer |-> isBuffer, factory |-> f,
                affDir |-> aff.dir, dicDir |-> dic.dir,
                affBuf |-> IF isBuffer THEN AffBuffer(id) ELSE 0,
                dicBuf |-> IF isBuffer THEN DicBuffer(id) ELSE 0,
                words |-> words]
  IN
  /\ IF InvalidKey(spellCheckerTable, key)
       THEN \* throw new Error('Invalid key: ...')
            /\ lastCall' = Call("loadDictionary", key, "error", <<>>)
            /\ UNCHANGED <<providerState, engineState, nextId>>
     ELSE IF ~isBuffer /\ ~isFile
       THEN \* throw new Error('Cannot load dictionary for given parameters')
            /\ lastCall' = Call("loadDictionary", key, "error", <<>>)
            /\ UNCHANGED <<providerState, engineState, nextId>>
     ELSE IF FactoryMissing(f)
       THEN \* factory is undefined: factory.mountBuffer / mountDirectory throws
            /\ lastCall' = Call("loadDictionary", key, "error", <<>>)
            /\ UNCHANGED <<providerState, engineState, nextId>>
     ELSE /\ nextId <= maxLoads
          /\ nextId' = nextId + 1
          /\ mountedDirs' = dirs2
          /\ mountedBufs' = bufs2
          /\ liveInstances' = IF crok THEN liveInstances \cup {id} ELSE liveInstances
          /\ fileMountRefCount' =
               RefCountAfterLoad(fileMountRefCount, isFile, crok, affPath, dicPath)
          /\ spellCheckerTable' =
               IF crok THEN Append(spellCheckerTable, entry) ELSE spellCheckerTable
          /\ lastCall' = Call("loadDictionary", key,
                              IF crok THEN "ok" ELSE "error", log1 \o log2 \o logf \o log3)
          /\ UNCHANGED <<currentSpellCheckerKey, currentSpellCheckerStartTime>>
  /\ UNCHANGED <<initState, provider, isRenderer, now>>


\* -------------------------------------------------------------- the host
\* setProvider(key, provider): installs the callback in a renderer, and only
\* logs a warning where there is no webFrame
\* mutant: the callback is installed whatever the process type
SetProviderAnywhere(callback) == callback

\* setProvider: the callback the host holds after it
SetProvider(callback) == IF isRenderer THEN callback ELSE provider
SetProviderLog(callback) ==
  IF isRenderer THEN <<Ev("setSpellCheckProvider", 0, callback.kind, 0)>>
                ELSE <<Ev("warnNoWebFrame", 0, "", 0)>>

\* ------------------------------------------------------- unloadDictionary
\* the entry's disposer, unmountFile: the engine's mounted directories after it
UnmountFileDirs(e, rc, dirs) ==
  LET affPath == MountPoint(e.factory, e.affDir)
      dicPath == MountPoint(e.factory, e.dicDir)
      ref1 == DecreaseRefCount(rc, affPath)
      rc1 == DecreaseTable(rc, affPath)
      dirs1 == IF ref1 = 0 THEN dirs \ {affPath} ELSE dirs
      ref2 == DecreaseRefCount(rc1, dicPath)
  IN IF ref2 = 0 THEN dirs1 \ {dicPath} ELSE dirs1

\* unmountFile: the ref-count table after it
UnmountFileRefs(e, rc) ==
  DecreaseTable(DecreaseTable(rc, MountPoint(e.factory, e.affDir)),
                MountPoint(e.factory, e.dicDir))

\* unmountFile: the engine calls it makes
UnmountFileLog(e, rc) ==
  LET affPath == MountPoint(e.factory, e.affDir)
      dicPath == MountPoint(e.factory, e.dicDir)
      rc1 == DecreaseTable(rc, affPath)
  IN (IF DecreaseRefCount(rc, affPath) = 0
        THEN <<Ev("unmount", e.factory, e.affDir, 0)>> ELSE <<>>)
     \o (IF DecreaseRefCount(rc1, dicPath) = 0
           THEN <<Ev("unmount", e.factory, e.dicDir, 0)>> ELSE <<>>)
     \o <<Ev("dispose", e.factory, "", e.spellChecker)>>

\* unmountBuffer: the engine calls it makes
UnmountBufferLog(e) ==
  <<Ev("unmount", e.factory, "", e.affBuf), Ev("unmount", e.factory, "", e.dicBuf),
    Ev("dispose", e.factory, "", e.spellChecker)>>

\* mutant: only the first buffer file is unmounted
UnmountBufferBufsAffOnly(e, bufs) == bufs \ {<<e.factory, e.affBuf>>}

\* unmountBuffer: the engine's mounted buffer files after it
UnmountBufferBufs(e, bufs) ==
  bufs \ {<<e.factory, e.affBuf>>, <<e.factory, e.dicBuf>>}

\* !!this._currentSpellCheckerKey && this._currentSpellCheckerKey === key
IsCurrent(current, key) == current # Null /\ current = key

\* mutant: unloading the selected entry adds the elapsed time first
RemovedUptimeFlushed(e, isCurrent) ==
  IF isCurrent /\ currentSpellCheckerStartTime # NegInf
    THEN e.uptime + (now - currentSpellCheckerStartTime)
    ELSE e.uptime

\* the uptime the entry holds when unloadDictionary deletes it
RemovedUptime(e, isCurrent) == e.uptime

\* mutant: the disposer runs before the selection is cleared
UnloadLogDisposeFirst(clearLog, disposeLog, deleteLog) ==
  disposeLog \o clearLog \o deleteLog

\* the order of unloadDictionary's steps: clear the selection and replace the
\* callback, run the disposer, delete the entry
UnloadLog(clearLog, disposeLog, deleteLog) ==
  clearLog \o disposeLog \o deleteLog

UnloadDictionary(key) ==
  /\ IF key = "" \/ ~Truthy(spellCheckerTable, key)
       THEN \* logged, nothing done
            /\ lastCall' = Call("unloadDictionary", key, "noop", <<>>)
            /\ UNCHANGED <<providerState, engineState, provider>>
     ELSE IF ~HasKey(spellCheckerTable, key)
       THEN \* dict is an inherited value: the selection is cleared when it is
            \* the selected key, then dict.dispose is not a function: TypeError
            LET isCurrent == IsCurrent(currentSpellCheckerKey, key)
            IN /\ currentSpellCheckerKey' =
                    IF isCurrent THEN Null ELSE currentSpellCheckerKey
               /\ currentSpellCheckerStartTime' =
                    IF isCurrent THEN NegInf ELSE currentSpellCheckerStartTime
               /\ provider' = IF isCurrent THEN SetProvider(AlwaysTrue(key))
                                           ELSE provider
               /\ lastCall' = Call("unloadDictionary", key, "error",
                      IF isCurrent
                        THEN <<Ev("clearSelection", 0, "", currentSpellCheckerStartTime)>>
                             \o SetProviderLog(AlwaysTrue(key))
                        ELSE <<>>)
               /\ UNCHANGED <<spellCheckerTable, fileMountRefCount, engineState>>
       ELSE LET e == Entry(spellCheckerTable, key)
                isCurrent == IsCurrent(currentSpellCheckerKey, key)
                log0 == IF isCurrent
                          THEN <<Ev("clearSelection", 0, "", currentSpellCheckerStartTime)>>
                               \o SetProviderLog(AlwaysTrue(key))
                          ELSE <<>>
            IN /\ currentSpellCheckerKey' =
                    IF isCurrent THEN Null ELSE currentSpellCheckerKey
               /\ currentSpellCheckerStartTime' =
                    IF isCurrent THEN NegInf ELSE currentSpellCheckerStartTime
               /\ provider' = IF isCurrent THEN SetProvider(AlwaysTrue(key))
                                           ELSE provider
               /\ fileMountRefCount' =
                    IF e.buffer THEN fileMountRefCount
                                ELSE UnmountFileRefs(e, fileMountRefCount)
               /\ mountedDirs' =
                    IF e.buffer THEN mountedDirs
                                ELSE UnmountFileDirs(e, fileMountRefCount, mountedDirs)
               /\ mountedBufs' =
                    IF e.buffer THEN UnmountBufferBufs(e, mountedBufs)
                                ELSE mountedBufs
               /\ liveInstances' = liveInstances \ {e.spellChecker}
               /\ spellCheckerTable' = DeleteKey(spellCheckerTable, key)
               /\ lastCall' = Call("unloadDictionary", key, "ok",
                      UnloadLog(log0,
                                IF e.buffer THEN UnmountBufferLog(e)
                                ELSE UnmountFileLog(e, fileMountRefCount),
                                <<Ev("delete", 0, key, RemovedUptime(e, isCurrent))>>))
  /\ UNCHANGED <<initState, isRenderer, now, nextId>>

\* ------------------------------------------------------- switchDictionary
\* Number.isInteger(this.currentSpellCheckerStartTime)
IsInteger(t) == t # NegInf

\* the guard of switchDictionary: !key || !this.spellCheckerTable[key]
NotAvailable(table, key) == key = "" \/ ~Truthy(table, key)

\* mutant: the elapsed time replaces the uptime instead of adding to it
AddUptimeOverwrite(table, key, timePassed) ==
  [table EXCEPT ![IndexOf(table, key)].uptime = timePassed]

\* the table after the uptime of the selected entry took the elapsed time
AddUptime(table, key, timePassed) ==
  [table EXCEPT ![IndexOf(table, key)].uptime = @ + timePassed]

\* switchDictionary(key, checkAllDictionaries); dt is how far the clock moves
\* between the handler's two Date.now() reads
SwitchDictionary(key, checkAll, dt, maxTime) ==
  LET currentKey == currentSpellCheckerKey
      flush == IsInteger(currentSpellCheckerStartTime) /\ currentKey # Null
      timePassed == now - currentSpellCheckerStartTime
  IN
  /\ IF NotAvailable(spellCheckerTable, key)
       THEN \* throw new Error('Spellchecker dictionary for ... is not available')
            /\ lastCall' = Call("switchDictionary", key, "error", <<>>)
            /\ UNCHANGED <<providerState, provider, now>>
     ELSE IF flush /\ ~Truthy(spellCheckerTable, currentKey)
       THEN \* this.spellCheckerTable[currentKey] is undefined: TypeError
            /\ lastCall' = Call("switchDictionary", key, "error", <<>>)
            /\ UNCHANGED <<providerState, provider, now>>
     ELSE /\ now + dt <= maxTime
          /\ now' = now + dt
          /\ spellCheckerTable' =
               \* for an inherited currentKey the += lands on the inherited
               \* value, not on an entry of the table
               IF flush /\ HasKey(spellCheckerTable, currentKey)
                 THEN AddUptime(spellCheckerTable, currentKey, timePassed)
                 ELSE spellCheckerTable
          /\ currentSpellCheckerStartTime' = now + dt
          /\ currentSpellCheckerKey' = key
          /\ provider' = SetProvider(Provider(key, checkAll))
          /\ lastCall' = Call("switchDictionary", key, "ok",
                              SetProviderLog(Provider(key, checkAll)))
          /\ UNCHANGED fileMountRefCount
  /\ UNCHANGED <<initState, engineState, isRenderer, nextId>>

\* ---------------------------------------------------- availableDictionaries
\* orderBy(array, ['uptime'], ['desc']): a stable sort, larger uptime first
RECURSIVE InsertDesc(_, _)
InsertDesc(sorted, e) ==
  IF sorted = <<>> THEN <<e>>
  ELSE IF Head(sorted).uptime >= e.uptime
    THEN <<Head(sorted)>> \o InsertDesc(Tail(sorted), e)
    ELSE <<e>> \o sorted

\* mutant: the array is returned in Object.keys order
OrderByNothing(array) == array

RECURSIVE OrderByUptimeDesc(_)
OrderByUptimeDesc(array) ==
  IF array = <<>> THEN <<>>
  ELSE InsertDesc(OrderByUptimeDesc(SubSeq(array, 1, Len(array) - 1)),
                  array[Len(array)])

\* the getter: Object.keys(table) mapped to {key, uptime}, ordered, mapped to key
AvailableDictionaries ==
  LET array == [i \in 1..Len(spellCheckerTable) |->
                  [key |-> spellCheckerTable[i].key,
                   uptime |-> spellCheckerTable[i].uptime]]
      ordered == OrderByUptimeDesc(array)
  IN [i \in 1..Len(ordered) |-> ordered[i].key]

\* ------------------------------------------------------------ getSuggestion
\* the list getSuggestion(text) returns
SuggestionValue(text) ==
  IF currentSpellCheckerKey = Null THEN <<>>
  ELSE IF ~HasKey(spellCheckerTable, currentSpellCheckerKey) THEN <<>>
  ELSE Suggest(Entry(spellCheckerTable, currentSpellCheckerKey).words, text)

\* the engine calls getSuggestion(text) makes
SuggestionLog ==
  IF currentSpellCheckerKey = Null THEN <<>>
  ELSE IF ~HasKey(spellCheckerTable, currentSpellCheckerKey) THEN <<>>
  ELSE LET e == Entry(spellCheckerTable, currentSpellCheckerKey)
       IN <<Ev("suggest", e.factory, e.key, e.spellChecker)>>

\* how getSuggestion ends: "bail" without a selected key, "missing" when the
\* lookup of the selected key finds nothing, "throws" when it finds an
\* inherited value (checker.spellChecker is undefined: TypeError), else "ok"
SuggestionResult ==
  IF currentSpellCheckerKey = Null THEN "bail"
  ELSE IF ~Truthy(spellCheckerTable, currentSpellCheckerKey) THEN "missing"
  ELSE IF ~HasKey(spellCheckerTable, currentSpellCheckerKey) THEN "throws"
  ELSE "ok"

GetSuggestion(text) ==
  /\ lastCall' = [Call("getSuggestion", currentSpellCheckerKey, SuggestionResult,
                        SuggestionLog)
                    EXCEPT !.value = SuggestionValue(text), !.word = text]
  /\ UNCHANGED <<initState, providerState, engineState, provider, isRenderer,
                 now, nextId>>

\* ------------------------------------------- the callback attach() installs
\* the other dictionaries, in Object.keys order
OtherDictionaries(key) == SelectSeq(spellCheckerTable, LAMBDA e : e.key # key)

\* the entries the loop over the other dictionaries queries: up to and
\* including the first that reports the word correct
QueriedOthers(key, word) ==
  LET others == OtherDictionaries(key)
      hits == {i \in 1..Len(others) : Spell(others[i].words, word)}
      last == IF hits = {} THEN Len(others)
              ELSE CHOOSE i \in hits : \A j \in hits : i <= j
  IN SubSeq(others, 1, last)

\* mutant: the other dictionaries are never consulted
CallbackResultPrimaryOnly(callback, word) ==
  IF callback.kind = "alwaysTrue" THEN "correct"
  ELSE IF ~HasKey(spellCheckerTable, callback.key) THEN "throws"
  ELSE IF Spell(Entry(spellCheckerTable, callback.key).words, word)
    THEN "correct" ELSE "incorrect"

\* the callback's verdict on a word: "correct", "incorrect", or "throws" when
\* the primary entry is missing from the table
CallbackResult(callback, word) ==
  IF callback.kind = "alwaysTrue" THEN "correct"
  ELSE IF ~HasKey(spellCheckerTable, callback.key) THEN "throws"
  ELSE LET primaryResult == Spell(Entry(spellCheckerTable, callback.key).words, word)
           others == OtherDictionaries(callback.key)
       IN IF ~callback.checkAll \/ Len(others) = 0 \/ primaryResult
            THEN (IF primaryResult THEN "correct" ELSE "incorrect")
            ELSE IF \E i \in 1..Len(others) : Spell(others[i].words, word)
              THEN "correct" ELSE "incorrect"

\* the engine instances the callback queries, in order
CallbackLog(callback, word) ==
  IF callback.kind = "alwaysTrue" THEN <<>>
  ELSE IF ~HasKey(spellCheckerTable, callback.key) THEN <<>>
  ELSE LET e == Entry(spellCheckerTable, callback.key)
           primaryResult == Spell(e.words, word)
           others == OtherDictionaries(callback.key)
           queried == IF ~callback.checkAll \/ Len(others) = 0 \/ primaryResult
                        THEN <<>> ELSE QueriedOthers(callback.key, word)
       IN <<Ev("spell", e.factory, e.key, e.spellChecker)>>
          \o [i \in 1..Len(queried) |->
                Ev("spell", queried[i].factory, queried[i].key, queried[i].spellChecker)]

\* the host asks the installed callback about a word
SpellCheck(word) ==
  /\ provider.kind # "none"
  /\ lastCall' = [Call("spellCheck", provider.key, CallbackResult(provider, word),
                       CallbackLog(provider, word)) EXCEPT !.word = word]
  /\ UNCHANGED <<initState, providerState, engineState, provider, isRenderer,
                 now, nextId>>

\* =================================================================== specs
\* Every specification runs the same handlers; each draws the inputs and the
\* bounds that the claims checked under it are about.

InitRenderer == Init /\ isRenderer = TRUE

\* --- mounts: files and buffers in every directory, every engine failure,
\* --- one initialize() call, a clock that stands still
MountContents == {{"colour"}}

NextMount ==
  \/ Initialize(1)
  \/ InitializeResume(1)
  \/ InitializeReject(1)
  \/ \E key \in Keys, dic \in Sources, aff \in Sources, fail \in Failures,
        words \in MountContents :
          LoadDictionary(key, dic, aff, fail, words, MaxLoads)
  \/ \E key \in Keys : UnloadDictionary(key)
  \/ \E key \in Keys : SwitchDictionary(key, FALSE, 0, 0)

SpecMount == InitRenderer /\ [][NextMount]_vars

\* --- initialization: overlapping initialize() calls, with dictionaries of
\* --- one directory and of buffers loaded and unloaded around them
InitSources == {FileSource("/a"), BufferSource}

NextInit ==
  \/ Initialize(MaxInit)
  \/ \E i \in 1..MaxInit : InitializeResume(i)
  \/ \E i \in 1..MaxInit : InitializeReject(i)
  \/ \E key \in Keys, src \in InitSources, words \in MountContents :
        LoadDictionary(key, src, src, "none", words, MaxLoads)
  \/ \E key \in Keys : UnloadDictionary(key)

SpecInit == InitRenderer /\ [][NextInit]_vars

\* --- selection: a running clock, buffer dictionaries loaded (the engine may
\* --- fail to create the instance), switched between and unloaded
ClockSteps == {0, 1}

NextSelect ==
  \/ Initialize(1)
  \/ InitializeResume(1)
  \/ \E key \in Keys, fail \in {"none", "create"}, words \in MountContents :
        LoadDictionary(key, BufferSource, BufferSource, fail, words, MaxLoads)
  \/ \E key \in Keys : UnloadDictionary(key)
  \/ \E key \in Keys, checkAll \in BOOLEAN, dt \in ClockSteps :
        SwitchDictionary(key, checkAll, dt, MaxTime)
  \/ Tick(MaxTime)

SpecSelect == InitRenderer /\ [][NextSelect]_vars

\* the same handlers in either kind of process (process.type renderer or not)
SpecHost == Init /\ [][NextSelect]_vars

\* --- queries: buffer dictionaries of every content, in a renderer and
\* --- outside one, with the host and the caller asking about every word
NextCheck ==
  \/ Initialize(1)
  \/ InitializeResume(1)
  \/ \E key \in Keys, words \in Contents :
        LoadDictionary(key, BufferSource, BufferSource, "none", words, MaxLoads)
  \/ \E key \in Keys : UnloadDictionary(key)
  \/ \E key \in Keys, checkAll \in BOOLEAN : SwitchDictionary(key, checkAll, 0, 0)
  \/ \E word \in Words : SpellCheck(word)
  \/ \E text \in Words : GetSuggestion(text)

SpecCheck == Init /\ [][NextCheck]_vars

\* ================================================================== claims
FileEntries(table) == {e \in Range(table) : ~e.buffer}
EntryDirs(e) == {e.affDir, e.dicDir}
\* some file-based entry of the table has a file in directory d of factory f
Referenced(table, f, d) ==
  \E o \in FileEntries(table) : o.factory = f /\ d \in EntryDirs(o)

\* C1: unloading a file-based dictionary never unmounts a directory that a
\* still-loaded dictionary has a file in (every loaded file-based dictionary's
\* directories stay mounted), and the engine's unmount of a directory is issued
\* exactly by the unload that releases its last referencing file, after which
\* the directory is not mounted.
C1_Step ==
  /\ \A e \in FileEntries(spellCheckerTable') :
       /\ MountPoint(e.factory, e.affDir) \in mountedDirs'
       /\ MountPoint(e.factory, e.dicDir) \in mountedDirs'
  /\ \A e \in FileEntries(spellCheckerTable) :
       ~HasKey(spellCheckerTable', e.key) =>
         \A d \in EntryDirs(e) :
           LET stillUsed == Referenced(spellCheckerTable', e.factory, d)
               unmounted == Ev("unmount", e.factory, d, 0) \in Range(lastCall'.log)
           IN /\ unmounted <=> ~stillUsed
              /\ ~stillUsed => MountPoint(e.factory, d) \notin mountedDirs'
C1_SharedDirectoryRefCounted == [][C1_Step]_vars

\* C1 witness: one of two dictionaries with all four files in /a was unloaded
\* without any unmount, the other is still loaded
C1_Witness ==
  /\ lastCall.op = "unloadDictionary" /\ lastCall.result = "ok"
  /\ \A i \in 1..Len(lastCall.log) : lastCall.log[i].op # "unmount"
  /\ Len(spellCheckerTable) = 1
  /\ ~spellCheckerTable[1].buffer
  /\ EntryDirs(spellCheckerTable[1]) = {"/a"}
  /\ MountPoint(spellCheckerTable[1].factory, "/a") \in mountedDirs

\* the files of loaded file-based dictionaries that resolve into mount point p
FilesIn(table, p) ==
  Cardinality({i \in 1..Len(table) :
                 ~table[i].buffer /\ MountPoint(table[i].factory, table[i].affDir) = p})
  + Cardinality({i \in 1..Len(table) :
                 ~table[i].buffer /\ MountPoint(table[i].factory, table[i].dicDir) = p})

MountPoints == {MountPoint(f, d) : f \in 1..MaxInit, d \in Dirs}

\* C2: the ref-count table holds, for each mounted directory, exactly the number
\* of files of loaded file-based dictionaries in it, and no entry when that
\* number is zero (so no count is zero or negative).
C2_RefCountExact ==
  /\ DOMAIN fileMountRefCount \subseteq MountPoints
  /\ \A p \in MountPoints :
       IF FilesIn(spellCheckerTable, p) = 0
         THEN p \notin DOMAIN fileMountRefCount
         ELSE /\ p \in DOMAIN fileMountRefCount
              /\ fileMountRefCount[p] = FilesIn(spellCheckerTable, p)

\* C2 witness: two loaded dictionaries with three files in /a and one in /b
C2_Witness ==
  /\ Len(spellCheckerTable) = 2
  /\ FilesIn(spellCheckerTable, MountPoint(1, "/a")) = 3
  /\ FilesIn(spellCheckerTable, MountPoint(1, "/b")) = 1
  /\ lastCall.op = "loadDictionary"

\* C3: initialize() loads the engine module once per provider: loadModule() is
\* not invoked while an earlier initialize() still awaits it, and the factory
\* handle, once set, is never replaced.
C3_Step ==
  /\ pendingInit # {} => loadModuleCalls' = loadModuleCalls
  /\ hunspellFactory # NoFactory => hunspellFactory' = hunspellFactory
C3_ModuleLoadedOnce == [][C3_Step]_vars

\* C4: a loadDictionary call whose key is empty or already registered fails
\* and leaves the dictionary table, the ref-count table, the selection state
\* and the engine's mounts and instances as they were.
C4_Step ==
  (/\ lastCall' # lastCall
   /\ lastCall'.op = "loadDictionary"
   /\ (lastCall'.key = "" \/ lastCall'.key \in TableKeys))
  => /\ lastCall'.result = "error"
     /\ lastCall'.log = <<>>
     /\ UNCHANGED <<spellCheckerTable, fileMountRefCount, currentSpellCheckerKey,
                    currentSpellCheckerStartTime, mountedDirs, mountedBufs,
                    liveInstances, provider>>
C4_InvalidKeyChangesNothing == [][C4_Step]_vars

\* C4 witness: a load with the key of the selected, file-based dictionary was
\* refused
C4_Witness ==
  /\ lastCall.op = "loadDictionary" /\ lastCall.result = "error"
  /\ lastCall.key \in TableKeys
  /\ lastCall.key = currentSpellCheckerKey
  /\ DOMAIN fileMountRefCount # {}

\* C5: a switchDictionary call whose key is not registered fails and leaves
\* the selected key, the start timestamp, every uptime and the installed
\* callback as they were.
C5_Step ==
  (/\ lastCall' # lastCall
   /\ lastCall'.op = "switchDictionary"
   /\ lastCall'.key \notin TableKeys)
  => /\ lastCall'.result = "error"
     /\ UNCHANGED <<currentSpellCheckerKey, currentSpellCheckerStartTime,
                    spellCheckerTable, provider>>
C5_MissingKeyChangesNothing == [][C5_Step]_vars

\* C6: a successful switchDictionary adds to the selected entry's uptime the
\* time from the recorded start of its selection to the call, leaves every
\* other uptime alone (all of them when nothing is selected) and records the
\* call's time as the new start; no step lowers the uptime of an entry that
\* stays registered.
C6_Step ==
  /\ (/\ lastCall' # lastCall
      /\ lastCall'.op = "switchDictionary"
      /\ lastCall'.result = "ok")
     => /\ Len(spellCheckerTable') = Len(spellCheckerTable)
        /\ \A i \in 1..Len(spellCheckerTable) :
             LET e == spellCheckerTable[i]
                 after == spellCheckerTable'[i]
             IN /\ after.key = e.key
                /\ after.uptime =
                     IF e.key = currentSpellCheckerKey
                       THEN e.uptime + (now - currentSpellCheckerStartTime)
                       ELSE e.uptime
        /\ currentSpellCheckerKey # Null =>
             /\ currentSpellCheckerStartTime # NegInf
             /\ now >= currentSpellCheckerStartTime
        /\ currentSpellCheckerStartTime' = now'
        /\ now' >= now
  /\ \A e \in Range(spellCheckerTable), after \in Range(spellCheckerTable') :
       (after.key = e.key /\ after.spellChecker = e.spellChecker)
         => after.uptime >= e.uptime
C6_UptimeAccumulates == [][C6_Step]_vars

\* C6 witness: after switching back and forth both dictionaries have
\* accumulated uptime
C6_Witness ==
  /\ lastCall.op = "switchDictionary" /\ lastCall.result = "ok"
  /\ Len(spellCheckerTable) = 2
  /\ \A e \in Range(spellCheckerTable) : e.uptime > 0

\* the keys of the log entries of the last call, in order
LogKeys == [i \in 1..Len(lastCall.log) |-> lastCall.log[i].d]

\* C7: the installed callback answers with the primary dictionary's verdict
\* when checkAllDictionaries is false; when it is true, "correct" iff some
\* dictionary registered at the time of the call accepts the word. The
\* primary is asked first, nobody else once it accepts the word, and only
\* registered dictionaries are asked.
C7_CallbackVerdict ==
  (lastCall.op = "spellCheck" /\ provider.kind = "provider"
   /\ provider.key \in TableKeys)
  => LET word == lastCall.word
         primaryOk == word \in Entry(spellCheckerTable, provider.key).words
         anyOk == \E e \in Range(spellCheckerTable) : word \in e.words
         expected == IF provider.checkAll THEN anyOk ELSE primaryOk
     IN /\ lastCall.result = IF expected THEN "correct" ELSE "incorrect"
        /\ Len(LogKeys) >= 1 /\ LogKeys[1] = provider.key
        /\ (primaryOk \/ ~provider.checkAll) => Len(LogKeys) = 1
        /\ \A i \in 1..Len(LogKeys) :
             /\ lastCall.log[i].op = "spell"
             /\ LogKeys[i] \in TableKeys
             /\ \A j \in 1..Len(LogKeys) : LogKeys[i] = LogKeys[j] => i = j

\* C7 witness: with checkAllDictionaries the primary rejected the word and
\* the second dictionary accepted it
C7_Witness ==
  /\ lastCall.op = "spellCheck" /\ lastCall.result = "correct"
  /\ provider.kind = "provider" /\ provider.checkAll
  /\ Len(lastCall.log) = 2
  /\ lastCall.word \notin Entry(spellCheckerTable, provider.key).words

\* C8: getSuggestion never throws: it returns the empty list without asking
\* the engine when no dictionary is selected, and otherwise the selected
\* dictionary's engine list as the engine gave it, asking that instance once.
C8_Suggestion ==
  lastCall.op = "getSuggestion"
  => /\ lastCall.result # "throws"
     /\ IF currentSpellCheckerKey \notin TableKeys
          THEN lastCall.value = <<>> /\ lastCall.log = <<>>
          ELSE LET e == Entry(spellCheckerTable, currentSpellCheckerKey)
               IN /\ lastCall.value = Suggest(e.words, lastCall.word)
                  /\ lastCall.log =
                       <<Ev("suggest", e.factory, e.key, e.spellChecker)>>

\* the uptime stored for a registered key
UptimeOf(key) == Entry(spellCheckerTable, key).uptime

\* C9: availableDictionaries lists no key twice and lists exactly the keys
\* loaded and not unloaded since: it starts empty, a successful loadDictionary
\* adds its (new) key with uptime zero, a successful unloadDictionary removes
\* its key, and no other step changes the set of listed keys.
C9_Change(before, listed, called) ==
  /\ Len(listed) = Cardinality(Range(listed))
  /\ IF called /\ lastCall'.op = "loadDictionary" /\ lastCall'.result = "ok"
       THEN /\ lastCall'.key \notin before
            /\ Range(listed) = before \cup {lastCall'.key}
            /\ Entry(spellCheckerTable', lastCall'.key).uptime = 0
     ELSE IF called /\ lastCall'.op = "unloadDictionary"
             /\ lastCall'.result = "ok"
       THEN /\ lastCall'.key \in before
            /\ Range(listed) = before \ {lastCall'.key}
     ELSE Range(listed) = before
C9_Step ==
  \A before \in {Range(AvailableDictionaries)}, listed \in {AvailableDictionaries'} :
    C9_Change(before, listed, lastCall' # lastCall)
C9_AvailableIsLoaded == AvailableDictionaries = <<>> /\ [][C9_Step]_vars

\* C9 witness: a second key was just loaded, with uptime zero, next to one
\* that has accumulated uptime; both are listed
C9_Witness ==
  /\ lastCall.op = "loadDictionary" /\ lastCall.result = "ok"
  /\ Len(AvailableDictionaries) = 2
  /\ Range(AvailableDictionaries) = {"en-us", "en-gb"}
  /\ UptimeOf(lastCall.key) = 0
  /\ \E key \in TableKeys : UptimeOf(key) > 0

\* C10: availableDictionaries lists the registered keys by descending stored
\* uptime.
C10_DescendingUptime ==
  /\ Range(AvailableDictionaries) = TableKeys
  /\ \A i, j \in 1..Len(AvailableDictionaries) :
       i < j => UptimeOf(AvailableDictionaries[i]) >= UptimeOf(AvailableDictionaries[j])

\* C10 witness: the key registered second has the larger uptime and is
\* listed first
C10_Witness ==
  /\ Len(spellCheckerTable) = 2
  /\ spellCheckerTable[1].uptime < spellCheckerTable[2].uptime
  /\ AvailableDictionaries = <<spellCheckerTable[2].key, spellCheckerTable[1].key>>

\* C11: unloadDictionary of the selected key first clears the selection and
\* replaces the host callback by the always-correct one, then runs the
\* entry's disposer (its unmounts, then the instance's dispose), then deletes
\* the entry; a callback whose primary is the unloaded entry is replaced
\* before the disposer runs, and the primary instance of an installed
\* callback is never a disposed one.
C11_Step ==
  /\ (/\ lastCall' # lastCall
      /\ lastCall'.op = "unloadDictionary"
      /\ lastCall'.result = "ok"
      /\ currentSpellCheckerKey = lastCall'.key)
     => LET log == lastCall'.log
            n == Len(log)
        IN /\ n >= 4
           /\ log[1].op = "clearSelection"
           /\ log[2] = Ev("setSpellCheckProvider", 0, "alwaysTrue", 0)
           /\ \A i \in 3..(n - 2) : log[i].op = "unmount"
           /\ log[n - 1].op = "dispose"
           /\ log[n].op = "delete" /\ log[n].d = lastCall'.key
           /\ currentSpellCheckerKey' = Null
           /\ currentSpellCheckerStartTime' = NegInf
           /\ provider' = AlwaysTrue(lastCall'.key)
           /\ ~HasKey(spellCheckerTable', lastCall'.key)
           /\ log[n - 1].n \notin liveInstances'
  /\ (/\ lastCall' # lastCall
      /\ lastCall'.op = "unloadDictionary"
      /\ lastCall'.result = "ok"
      /\ provider.kind = "provider"
      /\ provider.key = lastCall'.key)
     => /\ lastCall'.log[2] = Ev("setSpellCheckProvider", 0, "alwaysTrue", 0)
        /\ provider' = AlwaysTrue(lastCall'.key)
  /\ (provider'.kind = "provider" /\ HasKey(spellCheckerTable', provider'.key))
     => Entry(spellCheckerTable', provider'.key).spellChecker \in liveInstances'
C11_UnloadSelectedOrder == [][C11_Step]_vars

\* C11 witness: the selected, file-based dictionary was unloaded with both of
\* its directories unmounted, while another dictionary stays loaded
C11_Witness ==
  /\ lastCall.op = "unloadDictionary" /\ lastCall.result = "ok"
  /\ Len(lastCall.log) = 6
  /\ lastCall.log[1].op = "clearSelection"
  /\ lastCall.log[3].op = "unmount" /\ lastCall.log[3].d # ""
  /\ provider.kind = "alwaysTrue"
  /\ spellCheckerTable # <<>>

\* the uptime the last unloadDictionary's entry held when it was deleted
DeletedUptime(call) == call.log[Len(call.log)].n

\* C12 as claimed: unloading the selected key adds the time elapsed since its
\* selection to the entry's uptime before the selection is cleared.
C12_ClaimedStep ==
  (/\ lastCall' # lastCall
   /\ lastCall'.op = "unloadDictionary"
   /\ lastCall'.result = "ok"
   /\ currentSpellCheckerKey = lastCall'.key)
  => DeletedUptime(lastCall') =
       Entry(spellCheckerTable, lastCall'.key).uptime
       + (now - currentSpellCheckerStartTime)
C12_UnloadFlushesUptime == [][C12_ClaimedStep]_vars

\* C12 amended: unloading the selected key clears the selection without
\* adding the elapsed time to any uptime: the entry is deleted holding the
\* uptime it had, and the remaining entries are as they were.
C12_Step ==
  (/\ lastCall' # lastCall
   /\ lastCall'.op = "unloadDictionary"
   /\ lastCall'.result = "ok"
   /\ currentSpellCheckerKey = lastCall'.key)
  => /\ DeletedUptime(lastCall') = Entry(spellCheckerTable, lastCall'.key).uptime
     /\ spellCheckerTable' =
          SelectSeq(spellCheckerTable, LAMBDA e : e.key # lastCall'.key)
     /\ currentSpellCheckerKey' = Null
     /\ currentSpellCheckerStartTime' = NegInf
C12_UnloadDropsElapsedTime == [][C12_Step]_vars

\* C12 witness: the selected key was unloaded some time after its selection
\* started, and was deleted with uptime zero
C12_Witness ==
  /\ lastCall.op = "unloadDictionary" /\ lastCall.result = "ok"
  /\ lastCall.log[1].op = "clearSelection"
  /\ lastCall.log[1].n # NegInf /\ lastCall.log[1].n < now
  /\ DeletedUptime(lastCall) = 0

\* C13: where there is no renderer web frame, attaching only warns: no
\* callback is ever installed, switching to a registered key and unloading
\* the selected key succeed, and the selected key, the start time, the
\* uptimes and the table change by the same rule in both kinds of process.
C13_Step ==
  lastCall' # lastCall =>
    LET call == lastCall'
        key == call.key
        registered == key # "" /\ HasKey(spellCheckerTable, key)
        selected == currentSpellCheckerKey
    IN /\ ~isRenderer =>
            /\ provider' = NoCallback
            /\ \A i \in 1..Len(call.log) : call.log[i].op # "setSpellCheckProvider"
       /\ (call.op = "switchDictionary" /\ registered) =>
            /\ call.result = "ok"
            /\ ~isRenderer => call.log = <<Ev("warnNoWebFrame", 0, "", 0)>>
            /\ currentSpellCheckerKey' = key
            /\ currentSpellCheckerStartTime' = now'
            /\ Len(spellCheckerTable') = Len(spellCheckerTable)
            /\ \A i \in 1..Len(spellCheckerTable) :
                 spellCheckerTable'[i] =
                   IF selected # Null /\ spellCheckerTable[i].key = selected
                     THEN [spellCheckerTable[i] EXCEPT
                             !.uptime = @ + (now - currentSpellCheckerStartTime)]
                     ELSE spellCheckerTable[i]
       /\ (call.op = "unloadDictionary" /\ registered /\ selected = key) =>
            /\ call.result = "ok"
            /\ ~isRenderer => call.log[2] = Ev("warnNoWebFrame", 0, "", 0)
            /\ currentSpellCheckerKey' = Null
            /\ currentSpellCheckerStartTime' = NegInf
            /\ spellCheckerTable' =
                 SelectSeq(spellCheckerTable, LAMBDA e : e.key # key)
C13_NoWebFrameSameBookkeeping == [][C13_Step]_vars

\* C13 witness: outside a renderer the selected key was unloaded, after a
\* switch away from another entry had added to that entry's uptime
C13_Witness ==
  /\ ~isRenderer
  /\ lastCall.op = "unloadDictionary" /\ lastCall.result = "ok"
  /\ lastCall.log[1].op = "clearSelection"
  /\ lastCall.log[2].op = "warnNoWebFrame"
  /\ \E e \in Range(spellCheckerTable) : e.uptime > 0
  /\ provider = NoCallback

\* C14: buffer dictionaries are never ref-counted: loading one and unloading
\* one leave the ref-count table and the mounted directories as they were,
\* and the unload unmounts both of the entry's buffer files and disposes the
\* instance within the call.
C14_Step ==
  lastCall' # lastCall =>
    LET call == lastCall'
    IN /\ (/\ call.op = "loadDictionary"
            /\ call.log # <<>>
            /\ call.log[1].op = "mountBuffer") =>
              /\ fileMountRefCount' = fileMountRefCount
              /\ mountedDirs' = mountedDirs
              /\ call.result = "ok" =>
                    LET e == Entry(spellCheckerTable', call.key)
                    IN /\ e.buffer
                       /\ {<<e.factory, e.affBuf>>, <<e.factory, e.dicBuf>>}
                            \subseteq mountedBufs' \ mountedBufs
       /\ (/\ call.op = "unloadDictionary"
            /\ call.result = "ok"
            /\ Entry(spellCheckerTable, call.key).buffer) =>
              LET e == Entry(spellCheckerTable, call.key)
                  files == {<<e.factory, e.affBuf>>, <<e.factory, e.dicBuf>>}
                  n == Len(call.log)
              IN /\ fileMountRefCount' = fileMountRefCount
                 /\ mountedDirs' = mountedDirs
                 /\ Cardinality(files) = 2
                 /\ files \subseteq mountedBufs
                 /\ mountedBufs' = mountedBufs \ files
                 /\ e.spellChecker \in liveInstances
                 /\ e.spellChecker \notin liveInstances'
                 /\ n >= 4
                 /\ call.log[n - 3] = Ev("unmount", e.factory, "", e.affBuf)
                 /\ call.log[n - 2] = Ev("unmount", e.factory, "", e.dicBuf)
                 /\ call.log[n - 1] = Ev("dispose", e.factory, "", e.spellChecker)
C14_BufferNeverRefCounted == [][C14_Step]_vars

\* C14 witness: a buffer dictionary was unloaded while a file dictionary
\* holds ref counts
C14_Witness ==
  /\ lastCall.op = "unloadDictionary" /\ lastCall.result = "ok"
  /\ Len(lastCall.log) = 4
  /\ lastCall.log[1].op = "unmount" /\ lastCall.log[1].d = ""
  /\ lastCall.log[2].op = "unmount" /\ lastCall.log[2].d = ""
  /\ mountedBufs = {}
  /\ \E p \in DOMAIN fileMountRefCount : fileMountRefCount[p] = 2

\* the positions of the engine's directory-mount requests in a call's log
MountRequests(call) ==
  {i \in 1..Len(call.log) : call.log[i].op = "mountDirectory"}

\* the ref count of a mount point, zero when it has no entry
RefCountOf(rc, p) == IF p \in DOMAIN rc THEN rc[p] ELSE 0

\* C15 as claimed: a file load whose two files share a directory asks the
\* engine to mount that directory once, and adds two to its ref count.
C15_ClaimedStep ==
  (/\ lastCall' # lastCall
   /\ lastCall'.op = "loadDictionary"
   /\ lastCall'.result = "ok"
   /\ ~Entry(spellCheckerTable', lastCall'.key).buffer
   /\ Entry(spellCheckerTable', lastCall'.key).affDir
        = Entry(spellCheckerTable', lastCall'.key).dicDir)
  => LET e == Entry(spellCheckerTable', lastCall'.key)
         p == MountPoint(e.factory, e.affDir)
     IN /\ Cardinality(MountRequests(lastCall')) = 1
        /\ RefCountOf(fileMountRefCount', p) = RefCountOf(fileMountRefCount, p) + 2
C15_MountRequestedOncePerDirectory == [][C15_ClaimedStep]_vars

\* C15 amended: a file load asks the engine to mount a directory once per
\* file, the affix file's directory first: two requests even when both files
\* share a directory. The engine then holds one mount point per distinct
\* directory, and each file adds one to its directory's ref count.
C15_Step ==
  (/\ lastCall' # lastCall
   /\ lastCall'.op = "loadDictionary"
   /\ lastCall'.result = "ok"
   /\ ~Entry(spellCheckerTable', lastCall'.key).buffer)
  => LET e == Entry(spellCheckerTable', lastCall'.key)
         log == lastCall'.log
         points == {MountPoint(e.factory, e.affDir), MountPoint(e.factory, e.dicDir)}
     IN /\ MountRequests(lastCall') = {1, 2}
        /\ log[1] = Ev("mountDirectory", e.factory, e.affDir, 0)
        /\ log[2] = Ev("mountDirectory", e.factory, e.dicDir, 0)
        /\ mountedDirs' = mountedDirs \cup points
        /\ \A p \in points :
             RefCountOf(fileMountRefCount', p) =
               RefCountOf(fileMountRefCount, p)
               + (IF e.affDir = e.dicDir THEN 2 ELSE 1)
        /\ \A p \in DOMAIN fileMountRefCount' \ points :
             RefCountOf(fileMountRefCount', p) = RefCountOf(fileMountRefCount, p)
C15_MountRequestedOncePerFile == [][C15_Step]_vars

\* C15 witness: a file dictionary with both files in one directory was loaded
\* with two mount requests, and the directory is mounted once with count two
C15_Witness ==
  /\ lastCall.op = "loadDictionary" /\ lastCall.result = "ok"
  /\ Cardinality(MountRequests(lastCall)) = 2
  /\ lastCall.log[1] = lastCall.log[2]
  /\ Cardinality(mountedDirs) = 1
  /\ \A p \in mountedDirs : RefCountOf(fileMountRefCount, p) = 2

\* the engine's factory.create threw in the given call (both mounts were made)
CreateThrew(call) ==
  /\ call.op = "loadDictionary"
  /\ call.log # <<>>
  /\ call.log[Len(call.log)].op = "create"
  /\ call.log[Len(call.log)].d = "throws"

\* what the mount requests of a call's log mounted: directories, buffer files
MountedByDirs(call) ==
  {MountPoint(call.log[i].f, call.log[i].d) : i \in MountRequests(call)}
MountedByBufs(call) ==
  {<<call.log[i].f, call.log[i].n>> :
     i \in {j \in 1..Len(call.log) : call.log[j].op = "mountBuffer"}}

\* C16: when the engine fails to create the instance after the mounts were
\* made, the load fails, no entry is registered, no ref count is incremented
\* and nothing is unmounted: what the call mounted stays mounted.
C16_Step ==
  (lastCall' # lastCall /\ CreateThrew(lastCall'))
  => /\ lastCall'.result = "error"
     /\ spellCheckerTable' = spellCheckerTable
     /\ fileMountRefCount' = fileMountRefCount
     /\ liveInstances' = liveInstances
     /\ currentSpellCheckerKey' = currentSpellCheckerKey
     /\ \A i \in 1..Len(lastCall'.log) : lastCall'.log[i].op # "unmount"
     /\ Cardinality(MountRequests(lastCall')) + Cardinality(MountedByBufs(lastCall')) = 2
     /\ mountedDirs' = mountedDirs \cup MountedByDirs(lastCall')
     /\ mountedBufs' = mountedBufs \cup MountedByBufs(lastCall')
     /\ MountedByBufs(lastCall') \cap mountedBufs = {}
C16_CreateFailureLeaksMounts == [][C16_Step]_vars

\* C16 witness: after a failed create, a directory is mounted in the engine
\* and has no ref-count entry
C16_Witness ==
  /\ CreateThrew(lastCall)
  /\ \E p \in mountedDirs : p \notin DOMAIN fileMountRefCount
  /\ spellCheckerTable = <<>>

\* C17: the selected key is null or a registered key, and the start time is
\* a finite time exactly when a key is selected.
C17_SelectionRegistered ==
  /\ currentSpellCheckerKey = Null \/ currentSpellCheckerKey \in TableKeys
  /\ (currentSpellCheckerStartTime # NegInf) <=> (currentSpellCheckerKey # Null)

\* C18: in a renderer the installed callback is the always-correct one or the
\* one whose primary is the selected key; its primary is registered, and an
\* invocation does not throw and asks only live instances of registered
\* dictionaries.
C18_CallbackQueriesRegistered ==
  isRenderer =>
    /\ provider.kind = "provider" =>
         /\ provider.key = currentSpellCheckerKey
         /\ provider.key \in TableKeys
    /\ lastCall.op = "spellCheck" =>
         /\ lastCall.result # "throws"
         /\ \A i \in 1..Len(lastCall.log) :
              /\ lastCall.log[i].d \in TableKeys
              /\ lastCall.log[i].n \in liveInstances
              /\ Entry(spellCheckerTable, lastCall.log[i].d).spellChecker
                   = lastCall.log[i].n

\* C19: a loadDictionary call made while the factory is not yet set fails and
\* leaves the table, the ref counts, the selection and the engine as they
\* were; an entry is only ever added while the factory is set.
C19_Step ==
  lastCall' # lastCall =>
    /\ (lastCall'.op = "loadDictionary" /\ hunspellFactory = NoFactory) =>
         /\ lastCall'.result = "error"
         /\ lastCall'.log = <<>>
         /\ UNCHANGED <<spellCheckerTable, fileMountRefCount,
                        currentSpellCheckerKey, currentSpellCheckerStartTime,
                        mountedDirs, mountedBufs, liveInstances>>
    /\ Len(spellCheckerTable') > Len(spellCheckerTable) =>
         /\ hunspellFactory # NoFactory
         /\ lastCall'.op = "loadDictionary"
         /\ spellCheckerTable'[Len(spellCheckerTable')].factory = hunspellFactory
C19_LoadNeedsInitialize == [][C19_Step]_vars

\* C19 witness: a load with a fresh, non-empty key failed while initialize()
\* was still awaiting the module
C19_Witness ==
  /\ lastCall.op = "loadDictionary" /\ lastCall.result = "error"
  /\ lastCall.key = "en-us"
  /\ spellCheckerTable = <<>>
  /\ hunspellFactory = NoFactory
  /\ pendingInit # {}
====
